---- MODULE Spec2Model ----
(***************************************************************************)
(* Email_expense_tracker: the background EmailMonitor with the dashboard   *)
(* pages that drain its buffer (src/email_processing.py, src/expense.py),  *)
(* and EmailParser.parse_emails in its two implementations                 *)
(* (src/email_processing.py and src/backend/email_processing.py) with the  *)
(* analyze_emails route built on the backend one (src/backend/app.py).     *)
(***************************************************************************)
EXTENDS Naturals, Integers, Sequences, FiniteSets, TLC

(* ------------------------------ bounds --------------------------------- *)
\* days the clock may reach
MaxDay == 2
\* messages the mailbox of the monitor specification may hold
MaxMsgs == 2
\* Thread objects one EmailMonitor may create
MaxThreads == 2
\* records the monitor buffer may hold
MaxBuf == 3
\* records one cache entry may hold
MaxCache == 3
\* messages of one search result in the parse_emails specification
MaxBatch == 2

\* hours the clock of the budget specification may reach
MaxHours == 36
\* alerts the budget specification lets send_budget_alert deliver
MaxAlerts == 2
\* hours between two readings of that clock
TickHours == 6

\* self.last_checked = None
None == 0

\* extract_order_info returns None
NoAmount == -1

VARIABLES
    \* ---- EmailMonitor (src/email_processing.py) ----
    running,        \* self.running
    thread,         \* self.thread: 0 (None) or the id of the last Thread created
    threads,        \* position of every Thread in _monitor_emails
    last_checked,   \* self.last_checked: None or a day
    new_emails,     \* self.new_emails: message numbers of the appended records
    last_result,    \* outcome of the last completed iteration
    \* ---- the dashboard session (src/expense.py) ----
    fg,             \* position of the foreground script run
    fg_key,         \* vendors selected in the render in progress
    fg_new,         \* new_data of the render in progress
    cache,          \* st.session_state.cache, keyed by the vendor selection
    last_update,    \* st.session_state.last_update: None or a day
    phase,          \* which of start_monitoring / stop_monitoring returned last
    \* ---- environment ----
    now,            \* today's date
    mailbox,        \* order messages of the monitored mailbox, by message number
    \* ---- one parse_emails call (EmailParser) ----
    variant,        \* which implementation runs: "backend" (src/backend/) or
                    \* "root" (src/email_processing.py)
    batch,          \* the messages the search returns
    p_pc,           \* position in parse_emails
    imap,           \* state of self.mail, the imaplib session
    p_i,            \* messages of the batch handled so far
    order_data,     \* order_data
    p_exc,          \* an exception is propagating
    p_ret,          \* what the call gave its caller
    opened,         \* sessions opened by this call
    closed,         \* sessions logged out by this call
    p_fault,        \* the first failure the call met
    response,       \* the analyze_emails response built from the call
    \* ---- one extract_order_info call ----
    e_impl,         \* which extract_order_info runs: "root" (src/email_processing.py),
                    \* "swiggy_data" (src/Swiggy_data.py) or "backend"
    e_body,         \* email_body
    e_sender,       \* sender_email (used by the backend only)
    e_pc,           \* "call" before the call, "done" after it
    e_amount,       \* what the call returned
    \* ---- the search of one parse_emails call ----
    s_variant,      \* which implementation runs, as for variant
    s_sender,       \* sender_email: "" (None) or an address
    s_criteria,     \* search_criteria: the date range asked for
    s_box,          \* the messages of the folder
    s_pc,           \* "call", "search" or "done"
    s_search,       \* the criteria sent to the server
    s_found,        \* the message numbers the server returned
    \* ---- one aggregation of a list of order records ----
    a_data,         \* all_data / data: the order records given
    a_pc,           \* "call", then the name of the function that ran
    a_result,       \* the aggregates computed
    a_report,       \* the budget evaluation computed
    \* ---- user_data[email_addr] of the backend and its periodic update ----
    u_known,        \* email_addr in user_data
    u_budget,       \* user['budget']
    u_expenses,     \* user['monthly_expenses']: {} or the last evaluation
    u_last_alert,   \* user['last_alert']: None or the hour the alert was sent
    b_clock,        \* datetime.now(), in hours
    b_pc,           \* the handler that ran last
    last_alert_iso, \* user.get('last_alert') as the last update read it
    should_alert,   \* should_alert as the last update left it
    alerts,         \* the hours at which send_budget_alert delivered an alert
    saved,          \* the record of the user in user_data.json
    jobs,           \* the update jobs the scheduler holds for the user
    first_update,   \* the thread set_budget starts for the first update runs
    \* ---- the loop of a backend route over its sources and their addresses ----
    c_route,        \* "analyze_emails", "budget_analysis" or "update_monthly_expenses"
    c_sources,      \* sources: the names the request or the user record carries
    c_box,          \* the messages of the mailbox
    c_pos,          \* how many (name, sender_addr) pairs the loops have done
    c_data,         \* all_data: the records collected, each with its message number
    c_pc,           \* "loop" while the loops run, "done" after the aggregation
    c_report,       \* the budget evaluation of the route (budget routes only)
    \* ---- three messages parsed and aggregated by the backend ----
    x_batch,        \* the messages the search returned
    x_pc,           \* "call", "parsed" or "done"
    x_records,      \* what parse_emails returned, labeled by the route
    x_result,       \* aggregate_results_to_response of these records
    \* ---- the session of the dashboard (src/expense.py) ----
    authenticated,  \* st.session_state.authenticated
    last_auth_time, \* st.session_state.last_auth_time: None or an hour
    last_activity,  \* st.session_state.last_activity, an hour
    monitor,        \* st.session_state.monitor: None or the number of an EmailMonitor
    loops,          \* the EmailMonitor objects whose _monitor_emails loop runs
    created,        \* EmailMonitor objects created so far
    d_clock,        \* time.time() / datetime.now(), in hours
    d_pc,           \* what the last script run did
    d_valid,        \* what check_authenticated returned in the last script run
    d_elapsed       \* the hours since last_auth_time that call saw

mvars == <<running, thread, threads, last_checked, new_emails, last_result,
           fg, fg_key, fg_new, cache, last_update, phase, now, mailbox>>
pvars == <<variant, batch, p_pc, imap, p_i, order_data, p_exc, p_ret,
           opened, closed, p_fault, response>>
evars == <<e_impl, e_body, e_sender, e_pc, e_amount>>
svars == <<s_variant, s_sender, s_criteria, s_box, s_pc, s_search, s_found>>
avars == <<a_data, a_pc, a_result, a_report>>
bvars == <<u_known, u_budget, u_expenses, u_last_alert, b_clock, b_pc,
           last_alert_iso, should_alert, alerts, saved, jobs, first_update>>
cvars == <<c_route, c_sources, c_box, c_pos, c_data, c_pc, c_report>>
xvars == <<x_batch, x_pc, x_records, x_result>>
dvars == <<authenticated, last_auth_time, last_activity, monitor, loops, created,
           d_clock, d_pc, d_valid, d_elapsed>>
vars == <<mvars, pvars, evars, svars, avars, bvars, cvars, xvars, dvars>>

(* ======================================================================= *)
(* EmailMonitor and the dashboard pages                                    *)
(* ======================================================================= *)

ThreadIds == 1..MaxThreads

\* SOURCE_MAP of the dashboard, restricted to two of its five vendors
SOURCE_MAP == [Swiggy |-> "noreply@swiggy.in", Amazon |-> "auto-confirm@amazon.in"]

Vendors == DOMAIN SOURCE_MAP

\* vendor selections a page render is given: one of the two vendors, so that
\* the buffer can hold records of a selected and of an unselected vendor
Selections == {{"Swiggy"}}

\* From addresses of the messages that reach the monitored mailbox
MailSenders == {SOURCE_MAP[v] : v \in Vendors}

\* a Thread that runs _monitor_emails and has not left its loop
Alive(t) == threads[t] \in {"while", "try", "sleep"}

Indices(n) == [i \in 1..n |-> i]

\* parse_emails(search_criteria = SINCE <day of last_checked> | "ALL") on a
\* session that works: a record for every order message dated on or after the day
ParseSince(since) ==
    SelectSeq(Indices(Len(mailbox)),
              LAMBDA i : since = None \/ mailbox[i].day >= since)

\* get_email_data(..., sender_email): the order messages of one sender
ParseFrom(addr) ==
    SelectSeq(Indices(Len(mailbox)),
              LAMBDA i : mailbox[i].sender = addr)

\* what one parse_emails call of the monitor can do: raise (the connection
\* cannot be made, closing the session fails), return [] because the login was
\* refused, or return the records found
ParseOutcomes == {"raise", "login_failed", "ok"}

\* ---- __init__ ----
MonitorInit ==
    /\ running = FALSE
    /\ thread = 0
    /\ threads = [t \in ThreadIds |-> "unborn"]
    /\ last_checked = None
    /\ new_emails = <<>>
    /\ last_result = "none"

\* ---- start_monitoring ----
\* (variant: the guard left out)
StartGuardAlways == TRUE

\* if not self.running:
StartGuard == ~running

start_monitoring ==
    /\ fg = "idle"
    /\ IF StartGuard
       THEN /\ \E t \in ThreadIds :
                 /\ ~Alive(t)
                 /\ \A u \in ThreadIds : u < t => Alive(u)
                 /\ thread' = t
                 /\ threads' = [threads EXCEPT ![t] = "while"]
            /\ running' = TRUE
            /\ phase' = "started"
       ELSE /\ phase' = "restarted"
            /\ UNCHANGED <<running, thread, threads>>
    /\ UNCHANGED <<last_result, last_checked, new_emails, fg, fg_key, fg_new, cache,
                   last_update, now, mailbox>>
    /\ UNCHANGED <<pvars, evars, svars, avars, bvars, cvars, xvars, dvars>>

\* ---- stop_monitoring ----
\* (variant: a join that does not wait)
JoinReturnsAtOnce(t) == TRUE

\* self.thread.join() returns once the Thread has left _monitor_emails
JoinReturns(t) == threads[t] = "exited"

StopRequest ==
    /\ fg = "idle"
    /\ running' = FALSE
    /\ IF thread # 0
       THEN fg' = "join" /\ phase' = "stopping"
       ELSE fg' = "idle" /\ phase' = "stopped"
    /\ UNCHANGED <<thread, threads, last_checked, new_emails, last_result,
                   fg_key, fg_new, cache, last_update, now, mailbox>>
    /\ UNCHANGED <<pvars, evars, svars, avars, bvars, cvars, xvars, dvars>>

StopJoin ==
    /\ fg = "join"
    /\ JoinReturns(thread)
    /\ fg' = "idle"
    /\ phase' = "stopped"
    /\ UNCHANGED <<running, thread, threads, last_checked, new_emails, last_result,
                   fg_key, fg_new, cache, last_update, now, mailbox>>
    /\ UNCHANGED <<pvars, evars, svars, avars, bvars, cvars, xvars, dvars>>

\* ---- _monitor_emails ----
\* while self.running:
MonitorCheck(t) ==
    /\ threads[t] = "while"
    /\ threads' = [threads EXCEPT ![t] = IF running THEN "try" ELSE "exited"]
    /\ UNCHANGED <<running, thread, last_checked, new_emails, last_result,
                   fg, fg_key, fg_new, cache, last_update, phase, now, mailbox>>
    /\ UNCHANGED <<pvars, evars, svars, avars, bvars, cvars, xvars, dvars>>

\* (variant: the exception ends the Thread)
AfterRaiseDies == "exited"

\* except Exception: the error is printed and the loop goes on to its sleep
AfterRaise == "sleep"

\* (variant: assignment instead of extend)
ExtendedReplacing(buf, new_data) == new_data

\* self.new_emails.extend(new_data)
Extended(buf, new_data) == buf \o new_data

\* if new_data: ... self.last_checked = datetime.now()
CheckpointMoves(new_data) == new_data # <<>>

\* the try block of one iteration, with the outcome of its parse_emails call
MonitorIterate(t, outcome) ==
    /\ threads[t] = "try"
    /\ IF outcome = "raise"
       THEN /\ threads' = [threads EXCEPT ![t] = AfterRaise]
            /\ last_result' = "error"
            /\ UNCHANGED <<new_emails, last_checked>>
       ELSE LET new_data == IF outcome = "ok" THEN ParseSince(last_checked) ELSE <<>>
            IN  /\ Len(new_emails) + Len(new_data) <= MaxBuf
                /\ new_emails' = IF new_data # <<>> THEN Extended(new_emails, new_data)
                                                    ELSE new_emails
                /\ last_checked' = IF CheckpointMoves(new_data) THEN now ELSE last_checked
                /\ last_result' = IF outcome = "login_failed" THEN "login_failed"
                                   ELSE IF new_data = <<>> THEN "ok_empty" ELSE "ok_data"
                /\ threads' = [threads EXCEPT ![t] = "sleep"]
    /\ UNCHANGED <<running, thread, fg, fg_key, fg_new, cache, last_update, phase, now, mailbox>>
    /\ UNCHANGED <<pvars, evars, svars, avars, bvars, cvars, xvars, dvars>>

\* time.sleep(self.refresh_interval)
MonitorSleep(t) ==
    /\ threads[t] = "sleep"
    /\ threads' = [threads EXCEPT ![t] = "while"]
    /\ UNCHANGED <<running, thread, last_checked, new_emails, last_result,
                   fg, fg_key, fg_new, cache, last_update, phase, now, mailbox>>
    /\ UNCHANGED <<pvars, evars, svars, avars, bvars, cvars, xvars, dvars>>

\* ---- order_analysis_view / budget_tracker_view ----
\* the records of the buffer whose sender is one of the selected vendors
NewData(vs) ==
    SelectSeq(new_emails, LAMBDA i : \E v \in vs : SOURCE_MAP[v] = mailbox[i].sender)

\* the first fetch of a cache key: get_email_data for every selected vendor
FetchVendors(vs) ==
    (IF "Swiggy" \in vs THEN ParseFrom(SOURCE_MAP["Swiggy"]) ELSE <<>>)
    \o (IF "Amazon" \in vs THEN ParseFrom(SOURCE_MAP["Amazon"]) ELSE <<>>)

\* fill the cache entry if it is missing, then scan monitor.new_emails
RenderScan(vs) ==
    /\ fg = "idle"
    /\ cache' = IF vs \in DOMAIN cache THEN cache
                ELSE [k \in DOMAIN cache \cup {vs} |->
                         IF k = vs THEN FetchVendors(vs) ELSE cache[k]]
    /\ IF new_emails # <<>> /\ NewData(vs) # <<>>
       THEN /\ Len(cache'[vs]) + Len(NewData(vs)) <= MaxCache
            /\ fg' = "render"
            /\ fg_key' = vs
            /\ fg_new' = NewData(vs)
       ELSE UNCHANGED <<fg, fg_key, fg_new>>
    /\ UNCHANGED <<running, thread, threads, last_checked, new_emails, last_result,
                   last_update, phase, now, mailbox>>
    /\ UNCHANGED <<pvars, evars, svars, avars, bvars, cvars, xvars, dvars>>

\* cache[cache_key].extend(new_data); monitor.new_emails = []
RenderMerge ==
    /\ fg = "render"
    /\ cache' = [cache EXCEPT ![fg_key] = cache[fg_key] \o fg_new]
    /\ new_emails' = <<>>
    /\ fg' = "idle"
    /\ fg_key' = {}
    /\ fg_new' = <<>>
    /\ last_update' = now
    /\ UNCHANGED <<running, thread, threads, last_checked, last_result,
                   phase, now, mailbox>>
    /\ UNCHANGED <<pvars, evars, svars, avars, bvars, cvars, xvars, dvars>>

\* ---- environment ----
Tick ==
    /\ now < MaxDay
    /\ now' = now + 1
    /\ UNCHANGED <<running, thread, threads, last_checked, new_emails, last_result,
                   fg, fg_key, fg_new, cache, last_update, phase, mailbox>>
    /\ UNCHANGED <<pvars, evars, svars, avars, bvars, cvars, xvars, dvars>>

Deliver(s) ==
    /\ Len(mailbox) < MaxMsgs
    /\ mailbox' = Append(mailbox, [day |-> now, sender |-> s])
    /\ UNCHANGED <<running, thread, threads, last_checked, new_emails, last_result,
                   fg, fg_key, fg_new, cache, last_update, phase, now>>
    /\ UNCHANGED <<pvars, evars, svars, avars, bvars, cvars, xvars, dvars>>

ParseIdle ==
    /\ variant = "backend"
    /\ batch = <<>>
    /\ p_pc = "idle"
    /\ imap = "NONE"
    /\ p_i = 0
    /\ order_data = <<>>
    /\ p_exc = FALSE
    /\ p_ret = [kind |-> "none", data |-> <<>>]
    /\ opened = 0
    /\ closed = 0
    /\ p_fault = "none"
    /\ response = [success |-> FALSE, data |-> <<>>]

\* no extract_order_info call is under way
ExtractIdle ==
    /\ e_impl = "root"
    /\ e_body = <<>>
    /\ e_sender = ""
    /\ e_pc = "idle"
    /\ e_amount = NoAmount

\* no search is under way
SearchIdle ==
    /\ s_variant = "backend"
    /\ s_sender = ""
    /\ s_criteria = [since |-> None, before |-> None]
    /\ s_box = <<>>
    /\ s_pc = "idle"
    /\ s_search = [from |-> "", since |-> None, before |-> None]
    /\ s_found = <<>>

\* aggregate_results_to_response without rows with an amount
EmptyResponse ==
    [monthly_spending |-> <<>>, sender_spending |-> <<>>, total_spent |-> 0,
     average_order |-> 0, total_orders |-> 0, expenses |-> <<>>]

NoReport == [spent |-> 0, remaining |-> 0, percentage |-> 0, budget |-> 0]

\* no aggregation is under way
AggregateIdle ==
    /\ a_data = <<>>
    /\ a_pc = "idle"
    /\ a_result = EmptyResponse
    /\ a_report = NoReport

\* user_data.json holds nothing about the user
NoRecord == [budget |-> 0, monthly_expenses |-> NoReport, last_alert |-> None]

\* user_data is empty and the clock stands at its first hour
BudgetIdle ==
    /\ u_known = FALSE
    /\ u_budget = 0
    /\ u_expenses = NoReport
    /\ u_last_alert = None
    /\ b_clock = TickHours
    /\ b_pc = "idle"
    /\ last_alert_iso = None
    /\ should_alert = FALSE
    /\ alerts = <<>>
    /\ saved = NoRecord
    /\ jobs = 0
    /\ first_update = FALSE

\* no route is collecting records
CollectIdle ==
    /\ c_route = "idle"
    /\ c_sources = <<>>
    /\ c_box = <<>>
    /\ c_pos = 0
    /\ c_data = <<>>
    /\ c_pc = "idle"
    /\ c_report = NoReport

\* no batch is being parsed
ScenarioIdle ==
    /\ x_batch = <<>>
    /\ x_pc = "idle"
    /\ x_records = <<>>
    /\ x_result = EmptyResponse

\* init_session_state() of a browser session that never ran the script
SessionIdle ==
    /\ authenticated = FALSE
    /\ last_auth_time = None
    /\ last_activity = 1
    /\ monitor = None
    /\ loops = {}
    /\ created = 0
    /\ d_clock = 1
    /\ d_pc = "idle"
    /\ d_valid = FALSE
    /\ d_elapsed = 0

Init ==
    /\ MonitorInit
    /\ fg = "idle"
    /\ fg_key = {}
    /\ fg_new = <<>>
    /\ cache = <<>>
    /\ last_update = None
    /\ phase = "new"
    /\ now = 1
    /\ mailbox = <<>>
    /\ ParseIdle
    /\ ExtractIdle
    /\ SearchIdle
    /\ AggregateIdle
    /\ BudgetIdle
    /\ CollectIdle
    /\ ScenarioIdle
    /\ SessionIdle

Next ==
    \/ start_monitoring
    \/ StopRequest
    \/ StopJoin
    \/ \E t \in ThreadIds : MonitorCheck(t)
    \/ \E t \in ThreadIds, outcome \in ParseOutcomes : MonitorIterate(t, outcome)
    \/ \E t \in ThreadIds : MonitorSleep(t)
    \/ \E vs \in Selections : RenderScan(vs)
    \/ RenderMerge
    \/ Tick
    \/ \E s \in MailSenders : Deliver(s)

Spec == Init /\ [][Next]_vars

(* ======================================================================= *)
(* EmailParser: message texts and amount extraction                        *)
(* ======================================================================= *)

\* A body is a sequence of lines; a line is one of these texts, with its
\* amount in paise where the text carries one:
\*   OrderTotal  "Order Total: ₹<n>"        TotalRupee  "Total ₹<n>"
\*   AmountColon "Amount: ₹<n>"             Rupee       "₹<n>"
\*   Rs          "Rs. <n>"                  TotalRs     "TOTAL: RS. <n>"
\*   RsRs        "RS. RS. <n>"
\*   Thanks      "Thank you for ordering"   Refunded    "Your amount has been refunded"
\*   Cancelled   "This order was cancelled"
\* and <n> is written in one of four styles:
\*   plain   "250.00" (less than 1000 rupees)   comma   "1,234.50"
\*   spaced  "1 234"                            nodigit ","
Line(f, a) == [form |-> f, amt |-> a, style |-> "plain"]

StyledLine(f, a, s) == [form |-> f, amt |-> a, style |-> s]

AmountForms == {"OrderTotal", "TotalRupee"}

Bodies ==
    { <<>>,
      <<Line("OrderTotal", 25000)>>,
      <<Line("TotalRupee", 19900)>>,
      <<Line("Thanks", 0)>>,
      <<Line("OrderTotal", 25000), Line("Refunded", 0)>> }

Subjects == {"Your order is confirmed", "Your order has been cancelled"}

\* three of the sender addresses of the backend's SOURCE_MAP
ParseSenders == {"noreply@swiggy.in", "auto-confirm@amazon.in", "noreply@zomato.com"}

\* a message whose fetch or decoding raises, and the messages that can be read
PoisonedMessage ==
    [poison |-> TRUE, sender |-> "noreply@swiggy.in",
     subject |-> "Your order is confirmed", body |-> <<>>]

Messages ==
    {PoisonedMessage}
    \cup [poison : {FALSE}, sender : ParseSenders, subject : Subjects, body : Bodies]

Batches == UNION {[1..n -> Messages] : n \in 0..MaxBatch}

\* the digits before the first separator of a number written "1,234.50" or "1 234"
LeadingGroup(amt) == (amt \div 100000) * 100

\* a capture group matches a number text only if it can take a digit from it;
\* the groups are, by shape,
\*   "digits"   \d+(?:\.\d{2})?
\*   "grouped"  \d{1,3}(?:,\d{3})*(?:\.\d{2})?
\*   "loose"    \d{1,3}(?:[,\s]\d{3})*(?:\.\d{1,2})?
\*   "any"      [\d,]+(?:\.\d+)?
GroupMatches(group, line) == line.style # "nodigit" \/ group = "any"

\* the string a capture group takes from the number of a line: its value, and
\* whether float(<string>.replace(",", "")) accepts it
Capture(group, line) ==
    CASE line.style = "plain" -> [val |-> line.amt, float |-> TRUE]
      [] line.style = "comma" ->
            IF group = "digits" THEN [val |-> LeadingGroup(line.amt), float |-> TRUE]
            ELSE [val |-> line.amt, float |-> TRUE]
      [] line.style = "spaced" ->
            IF group = "loose" THEN [val |-> line.amt, float |-> FALSE]
            ELSE [val |-> LeadingGroup(line.amt), float |-> TRUE]
      [] OTHER -> [val |-> 0, float |-> FALSE]

\* re.findall of one pattern: the captures of the lines whose text it matches
FindAll(forms, group, body) ==
    LET hit == SelectSeq(body, LAMBDA l : l.form \in forms /\ GroupMatches(group, l))
    IN  [i \in 1..Len(hit) |-> Capture(group, hit[i])]

\* a pattern that starts with [\r\n] matches no text of the first line
FindAllAfterNewline(forms, group, body) ==
    IF body = <<>> THEN <<>> ELSE FindAll(forms, group, Tail(body))

Values(texts) == [i \in 1..Len(texts) |-> texts[i].val]

RECURSIVE SeqSum(_)
SeqSum(s) == IF s = <<>> THEN 0 ELSE Head(s) + SeqSum(Tail(s))

SeqMax(s) == CHOOSE x \in {s[i] : i \in 1..Len(s)} : \A i \in 1..Len(s) : s[i] <= x

RECURSIVE Flatten(_)
Flatten(ss) == IF ss = <<>> THEN <<>> ELSE Head(ss) \o Flatten(Tail(ss))

\* amount = max(matches, key=lambda x: float(str(x).replace(',', ''))): float
\* raises ValueError on a match it rejects, and the except clause of
\* extract_order_info returns None
LargestMatch(matches) ==
    IF \E i \in 1..Len(matches) : ~matches[i].float THEN NoAmount
    ELSE SeqMax(Values(matches))

\* ---- src/email_processing.py: the 17 patterns, by the line texts each
\* matches and by the shape of its capture group
RootPatternForms ==
    << {}, {}, {}, {"OrderTotal"}, {}, {"OrderTotal"}, {}, {}, {"OrderTotal"}, {"Rupee"},
       {"OrderTotal", "TotalRupee", "AmountColon", "Rupee"}, {"RsRs"},
       {"OrderTotal", "AmountColon"}, {"OrderTotal", "TotalRupee", "AmountColon", "Rupee"},
       {"Rs", "TotalRs", "RsRs"}, {}, {"OrderTotal", "TotalRs"} >>

RootPatternGroup ==
    << "grouped", "grouped", "grouped", "grouped", "grouped",
       "digits", "digits", "digits", "digits", "digits", "digits", "loose",
       "digits", "digits", "digits", "digits", "loose" >>

\* "Newline Rupee Pattern", [\r\n]₹...
RootNewlinePattern == 10

\* re.findall(pattern, email_body, re.MULTILINE | re.IGNORECASE)
RootFindAll(p, body) ==
    IF p = RootNewlinePattern
    THEN FindAllAfterNewline(RootPatternForms[p], RootPatternGroup[p], body)
    ELSE FindAll(RootPatternForms[p], RootPatternGroup[p], body)

\* the largest match of the first pattern that matches
RootExtract(body) ==
    LET hits == {p \in 1..Len(RootPatternForms) : RootFindAll(p, body) # <<>>}
    IN  IF hits = {} THEN NoAmount
        ELSE LET first == CHOOSE p \in hits : \A q \in hits : p <= q
             IN  LargestMatch(RootFindAll(first, body))

\* ---- src/Swiggy_data.py: the 16 entries of its pattern list
SwiggyDataPatternForms ==
    << {"OrderTotal"}, {}, {}, {"OrderTotal"}, {"Rupee"},
       {"OrderTotal", "TotalRupee", "AmountColon", "Rupee"}, {"RsRs"}, {}, {}, {},
       {"OrderTotal", "AmountColon"}, {},
       {"OrderTotal", "TotalRupee", "AmountColon", "Rupee"},
       {"Rs", "TotalRs", "RsRs"}, {}, {"OrderTotal", "TotalRs"} >>

SwiggyDataPatternGroup ==
    << "digits", "digits", "digits", "digits", "digits", "digits", "loose",
       "digits", "digits", "digits", "digits", "digits", "digits", "digits",
       "digits", "loose" >>

SwiggyDataNewlinePattern == 5

\* the first ten entries are (pattern, name) tuples; the others are plain
\* strings, and "for pattern, pattern_name in patterns" raises ValueError when
\* it reaches the first of them
SwiggyDataTuples == 10

SwiggyDataFindAll(p, body) ==
    IF p = SwiggyDataNewlinePattern
    THEN FindAllAfterNewline(SwiggyDataPatternForms[p], SwiggyDataPatternGroup[p], body)
    ELSE FindAll(SwiggyDataPatternForms[p], SwiggyDataPatternGroup[p], body)

\* the largest match of the first tuple that matches; when no tuple matches,
\* the ValueError of the unpacking is caught and None is returned
SwiggyDataExtract(body) ==
    LET hits == {p \in 1..SwiggyDataTuples : SwiggyDataFindAll(p, body) # <<>>}
    IN  IF hits = {} THEN NoAmount
        ELSE LET first == CHOOSE p \in hits : \A q \in hits : p <= q
             IN  LargestMatch(SwiggyDataFindAll(first, body))

\* ---- src/backend/email_processing.py
\* "swiggy" in sender / "amazon" in sender, for the lower-cased address
SenderTokens(sender) ==
    CASE sender = "noreply@swiggy.in" -> {"swiggy"}
      [] sender = "auto-confirm@amazon.in" -> {"amazon"}
      [] OTHER -> {}

\* Paid Via Bank : ₹, Order Total : ₹, Amount Payable : ₹
SwiggyPatternForms == << {"PaidViaBank"}, {"OrderTotal"}, {"AmountPayable"} >>

\* (variant: zero when nothing matched)
MatchLabeledAmountZero(body, patterns) ==
    LET found == Flatten([p \in 1..Len(patterns) |-> FindAll(patterns[p], "any", body)])
        matches == SelectSeq(found, LAMBDA t : t.float)
    IN  IF matches = <<>> THEN 0 ELSE matches[Len(matches)].val

\* _match_labeled_amount: the last match, among those float() accepts, of the
\* last pattern that matched
MatchLabeledAmount(body, patterns) ==
    LET found == Flatten([p \in 1..Len(patterns) |-> FindAll(patterns[p], "any", body)])
        matches == SelectSeq(found, LAMBDA t : t.float)
    IN  IF matches = <<>> THEN NoAmount ELSE matches[Len(matches)].val

ExtractSwiggyAmount(body) == MatchLabeledAmount(body, SwiggyPatternForms)

\* (variant: the largest match instead of the sum)
ExtractAmazonAmountMax(body) ==
    LET matches == FindAll({"TotalRupee"}, "any", body)
        amounts == Values(SelectSeq(matches, LAMBDA t : t.float))
    IN  IF matches = <<>> THEN NoAmount
        ELSE IF amounts = <<>> THEN 0 ELSE SeqMax(amounts)

\* _extract_amazon_amount: None when Total ₹ has no match, else the sum of the
\* matches float() accepts (0 when it accepts none)
ExtractAmazonAmount(body) ==
    LET matches == FindAll({"TotalRupee"}, "any", body)
        amounts == Values(SelectSeq(matches, LAMBDA t : t.float))
    IN  IF matches = <<>> THEN NoAmount ELSE SeqSum(amounts)

BackendExtract(body, sender) ==
    IF "swiggy" \in SenderTokens(sender) THEN ExtractSwiggyAmount(body)
    ELSE IF "amazon" \in SenderTokens(sender) THEN ExtractAmazonAmount(body)
    ELSE NoAmount

\* the words of ["cancel", "refunded", "returned", "failed", "declined"] that
\* occur in the lower-cased text: a subject, or a body line named by its form
ExclusionWordsIn(text) ==
    CASE text = "Your order has been cancelled" -> {"cancel"}
      [] text = "Refunded" -> {"refunded"}
      [] text = "Cancelled" -> {"cancel"}
      [] OTHER -> {}

\* any(w in (subject + " " + body).lower() for w in [...])
ShouldSkip(m) ==
    \/ ExclusionWordsIn(m.subject) # {}
    \/ \E i \in 1..Len(m.body) : ExclusionWordsIn(m.body[i].form) # {}

\* the body of the for loop of the backend's parse_emails for a message that
\* can be read: the records it appends for message number i
BackendRecords(i, m) ==
    IF m.body = <<>> THEN <<>>
    ELSE IF ShouldSkip(m) THEN <<>>
    ELSE LET amount == BackendExtract(m.body, m.sender)
         IN  IF amount # NoAmount THEN <<[msg |-> i, amount |-> amount]>> ELSE <<>>

\* the same for src/email_processing.py
RootRecords(i, m) ==
    IF m.body = <<>> THEN <<>>
    ELSE LET amount == RootExtract(m.body)
         IN  IF amount # NoAmount THEN <<[msg |-> i, amount |-> amount]>> ELSE <<>>

(* ======================================================================= *)
(* One parse_emails call, and the analyze_emails response built from it    *)
(* ======================================================================= *)

NoReturn == [kind |-> "none", data |-> <<>>]
Returned(data) == [kind |-> "list", data |-> data]
Raised == [kind |-> "raise", data |-> <<>>]

\* connect(): IMAP4_SSL(...) outside the try, login inside it
Connect(outcome) ==
    /\ p_pc = "connect"
    /\ CASE outcome = "transport" ->
              \* IMAP4_SSL raises: the exception leaves parse_emails
              /\ p_ret' = Raised
              /\ p_fault' = "transport"
              /\ p_pc' = "done"
              /\ UNCHANGED <<imap, opened>>
         [] outcome = "login" ->
              \* login raises, connect returns False, parse_emails returns []
              /\ imap' = "NONAUTH"
              /\ opened' = opened + 1
              /\ p_ret' = Returned(<<>>)
              /\ p_fault' = "login"
              /\ p_pc' = "done"
         [] OTHER ->
              /\ imap' = "AUTH"
              /\ opened' = opened + 1
              /\ p_pc' = "select"
              /\ UNCHANGED <<p_ret, p_fault>>
    /\ UNCHANGED <<variant, batch, p_i, order_data, p_exc, closed, response>>
    /\ UNCHANGED <<mvars, evars, svars, avars, bvars, cvars, xvars, dvars>>

\* an exception inside the try: the backend has no except clause, the other
\* implementation returns [] from its except clause; both go to the finally
Except(fault) ==
    /\ p_fault' = fault
    /\ p_exc' = (variant = "backend")
    /\ order_data' = IF variant = "backend" THEN order_data ELSE <<>>
    /\ p_pc' = "finally"

\* self.mail.select(folder)
Select(ok) ==
    /\ p_pc = "select"
    /\ IF ok
       THEN /\ imap' = "SELECTED"
            /\ p_pc' = "search"
            /\ UNCHANGED <<p_fault, p_exc, order_data>>
       ELSE /\ Except("select")
            /\ UNCHANGED imap
    /\ UNCHANGED <<variant, batch, p_i, p_ret, opened, closed, response>>
    /\ UNCHANGED <<mvars, evars, svars, avars, bvars, cvars, xvars, dvars>>

\* self.mail.search(None, search); order_data = []
Search(ok, b) ==
    /\ p_pc = "search"
    /\ IF ok
       THEN /\ batch' = b
            /\ p_pc' = "loop"
            /\ UNCHANGED <<p_fault, p_exc, order_data>>
       ELSE /\ Except("search")
            /\ UNCHANGED batch
    /\ UNCHANGED <<variant, imap, p_i, p_ret, opened, closed, response>>
    /\ UNCHANGED <<mvars, evars, svars, avars, bvars, cvars, xvars, dvars>>

\* one pass of the for loop
Process ==
    /\ p_pc = "loop"
    /\ p_i < Len(batch)
    /\ LET i == p_i + 1
           m == batch[i]
       IN  IF variant = "backend"
           THEN IF m.poison
                THEN /\ Except("message")
                     /\ UNCHANGED p_i
                ELSE /\ order_data' = order_data \o BackendRecords(i, m)
                     /\ p_i' = i
                     /\ UNCHANGED <<p_pc, p_fault, p_exc>>
           ELSE /\ order_data' = IF m.poison THEN order_data
                                 ELSE order_data \o RootRecords(i, m)
                /\ p_fault' = IF m.poison /\ p_fault = "none" THEN "message" ELSE p_fault
                /\ p_i' = i
                /\ UNCHANGED <<p_pc, p_exc>>
    /\ UNCHANGED <<variant, batch, imap, p_ret, opened, closed, response>>
    /\ UNCHANGED <<mvars, evars, svars, avars, bvars, cvars, xvars, dvars>>

\* return order_data
LoopEnd ==
    /\ p_pc = "loop"
    /\ p_i = Len(batch)
    /\ p_pc' = "finally"
    /\ UNCHANGED <<variant, batch, imap, p_i, order_data, p_exc, p_ret, opened,
                   closed, p_fault, response>>
    /\ UNCHANGED <<mvars, evars, svars, avars, bvars, cvars, xvars, dvars>>

\* imaplib accepts CLOSE only in state SELECTED and raises otherwise
CloseAllowed == imap = "SELECTED"

\* finally: self.mail.close(); self.mail.logout()
Finally ==
    /\ p_pc = "finally"
    /\ IF CloseAllowed
       THEN /\ imap' = "LOGOUT"
            /\ closed' = closed + 1
            /\ p_ret' = IF p_exc THEN Raised ELSE Returned(order_data)
       ELSE \* close() raises, logout() is not reached
            /\ p_ret' = Raised
            /\ UNCHANGED <<imap, closed>>
    /\ p_pc' = "done"
    /\ UNCHANGED <<variant, batch, p_i, order_data, p_exc, opened, p_fault, response>>
    /\ UNCHANGED <<mvars, evars, svars, avars, bvars, cvars, xvars, dvars>>

\* analyze_emails for one sender address: an exception of parse_emails makes
\* data_list empty, and the response is built from what was collected
Respond ==
    /\ p_pc = "done"
    /\ variant = "backend"
    /\ response' = [success |-> TRUE,
                    data |-> IF p_ret.kind = "raise" THEN <<>> ELSE p_ret.data]
    /\ p_pc' = "responded"
    /\ UNCHANGED <<variant, batch, imap, p_i, order_data, p_exc, p_ret, opened,
                   closed, p_fault>>
    /\ UNCHANGED <<mvars, evars, svars, avars, bvars, cvars, xvars, dvars>>

ConnectOutcomes == {"transport", "login", "ok"}

InitParse ==
    /\ MonitorInit
    /\ fg = "idle"
    /\ fg_key = {}
    /\ fg_new = <<>>
    /\ cache = <<>>
    /\ last_update = None
    /\ phase = "new"
    /\ now = 1
    /\ mailbox = <<>>
    /\ variant \in {"backend", "root"}
    /\ batch = <<>>
    /\ p_pc = "connect"
    /\ imap = "NONE"
    /\ p_i = 0
    /\ order_data = <<>>
    /\ p_exc = FALSE
    /\ p_ret = NoReturn
    /\ opened = 0
    /\ closed = 0
    /\ p_fault = "none"
    /\ response = [success |-> FALSE, data |-> <<>>]
    /\ ExtractIdle
    /\ SearchIdle
    /\ AggregateIdle
    /\ BudgetIdle
    /\ CollectIdle
    /\ ScenarioIdle
    /\ SessionIdle

NextParse ==
    \/ \E outcome \in ConnectOutcomes : Connect(outcome)
    \/ \E ok \in BOOLEAN : Select(ok)
    \/ \E ok \in BOOLEAN, b \in Batches : Search(ok, b)
    \/ Process
    \/ LoopEnd
    \/ Finally
    \/ Respond

SpecParse == InitParse /\ [][NextParse]_vars

(* ======================================================================= *)
(* One extract_order_info call                                             *)
(* ======================================================================= *)

\* lines a normalized body may hold
MaxLines == 3

ExtractLines ==
    { Line("OrderTotal", 25000),
      StyledLine("OrderTotal", 123450, "comma"),
      Line("TotalRupee", 19900),
      Line("TotalRupee", 45050),
      StyledLine("TotalRupee", 0, "nodigit"),
      Line("Rupee", 12000),
      Line("Rupee", 4500),
      Line("Rupee", 30000),
      Line("Rs", 25000),
      StyledLine("TotalRs", 123450, "comma"),
      StyledLine("RsRs", 123400, "spaced"),
      Line("Thanks", 0) }

ExtractBodies == UNION {[1..n -> ExtractLines] : n \in 0..MaxLines}

\* the implementations, with the sender the backend's one is given
ExtractCalls ==
    ({"root", "swiggy_data"} \X {""}) \cup ({"backend"} \X ParseSenders)

\* the monitor and the dashboard as constructed, nothing running
MonitorIdle ==
    /\ MonitorInit
    /\ fg = "idle"
    /\ fg_key = {}
    /\ fg_new = <<>>
    /\ cache = <<>>
    /\ last_update = None
    /\ phase = "new"
    /\ now = 1
    /\ mailbox = <<>>

InitExtract ==
    /\ MonitorIdle
    /\ ParseIdle
    /\ \E c \in ExtractCalls : e_impl = c[1] /\ e_sender = c[2]
    /\ e_body \in ExtractBodies
    /\ e_pc = "call"
    /\ e_amount = NoAmount
    /\ SearchIdle
    /\ AggregateIdle
    /\ BudgetIdle
    /\ CollectIdle
    /\ ScenarioIdle
    /\ SessionIdle

extract_order_info ==
    /\ e_pc = "call"
    /\ e_amount' = CASE e_impl = "root" -> RootExtract(e_body)
                      [] e_impl = "swiggy_data" -> SwiggyDataExtract(e_body)
                      [] OTHER -> BackendExtract(e_body, e_sender)
    /\ e_pc' = "done"
    /\ UNCHANGED <<e_impl, e_body, e_sender>>
    /\ UNCHANGED <<mvars, pvars, svars, avars, bvars, cvars, xvars, dvars>>

NextExtract == extract_order_info

SpecExtract == InitExtract /\ [][NextExtract]_vars

(* ======================================================================= *)
(* The search of one parse_emails call                                     *)
(* ======================================================================= *)

\* days the messages of the folder and the date criteria range over
MaxDate == 3
\* messages the folder of the search specification may hold
MaxBox == 2

SearchSenders == {"noreply@swiggy.in", "auto-confirm@amazon.in"}

\* search_criteria as the callers build it: "ALL", (SINCE "<d>") or
\* (SINCE "<d>" BEFORE "<d'>")
DateCriteria ==
    {c \in [since : 0..MaxDate, before : 0..(MaxDate + 1)] :
        /\ c.since = None => c.before = None
        /\ c.before # None => c.since < c.before}

Boxes == UNION {[1..n -> [sender : SearchSenders, day : 1..MaxDate]] : n \in 0..MaxBox}

\* src/backend/email_processing.py: if sender_email: search = (FROM "<sender>")
\* else: search = search_criteria
BackendSearch(sender, criteria) ==
    IF sender # ""
    THEN [from |-> sender, since |-> None, before |-> None]
    ELSE [from |-> "", since |-> criteria.since, before |-> criteria.before]

\* src/email_processing.py: (FROM "<sender>") <search_criteria> when both are
\* given, search_criteria alone without a sender
RootSearch(sender, criteria) ==
    IF sender # ""
    THEN [from |-> sender, since |-> criteria.since, before |-> criteria.before]
    ELSE [from |-> "", since |-> criteria.since, before |-> criteria.before]

\* the IMAP server's answer: FROM, SINCE (inclusive) and BEFORE (exclusive)
\* all have to hold
ServerSearch(search, box) ==
    SelectSeq(Indices(Len(box)),
              LAMBDA i : /\ search.from = "" \/ box[i].sender = search.from
                         /\ search.since = None \/ box[i].day >= search.since
                         /\ search.before = None \/ box[i].day < search.before)

InitSearch ==
    /\ MonitorIdle
    /\ ParseIdle
    /\ ExtractIdle
    /\ s_variant \in {"backend", "root"}
    /\ s_sender \in SearchSenders \cup {""}
    /\ s_criteria \in DateCriteria
    /\ s_box \in Boxes
    /\ s_pc = "call"
    /\ s_search = [from |-> "", since |-> None, before |-> None]
    /\ s_found = <<>>
    /\ AggregateIdle
    /\ BudgetIdle
    /\ CollectIdle
    /\ ScenarioIdle
    /\ SessionIdle

\* the search string parse_emails builds from its arguments
BuildSearch ==
    /\ s_pc = "call"
    /\ s_search' = IF s_variant = "backend" THEN BackendSearch(s_sender, s_criteria)
                   ELSE RootSearch(s_sender, s_criteria)
    /\ s_pc' = "search"
    /\ UNCHANGED <<s_variant, s_sender, s_criteria, s_box, s_found>>
    /\ UNCHANGED <<mvars, pvars, evars, avars, bvars, cvars, xvars, dvars>>

\* _, message_numbers = self.mail.search(None, search)
MailSearch ==
    /\ s_pc = "search"
    /\ s_found' = ServerSearch(s_search, s_box)
    /\ s_pc' = "done"
    /\ UNCHANGED <<s_variant, s_sender, s_criteria, s_box, s_search>>
    /\ UNCHANGED <<mvars, pvars, evars, avars, bvars, cvars, xvars, dvars>>

NextSearch == BuildSearch \/ MailSearch

SpecSearch == InitSearch /\ [][NextSearch]_vars

(* ======================================================================= *)
(* Aggregation and budget evaluation of a list of order records            *)
(* ======================================================================= *)

\* order records one aggregation may be given
MaxOrders == 2

\* pd.to_datetime(..., errors='coerce') of a date that cannot be parsed: NaT
BadDate == 0
\* pd.to_numeric(..., errors='coerce') of an amount that cannot be parsed: NaN
BadAmount == -1

\* calendar months of the order dates; datetime.now() is in the second
Months == {1, 2}

CurrentMonth == 2

\* amounts of order records, in paise
OrderAmounts == {7000, 10000}

\* From fields: a known vendor address, an address of no known vendor, none
AggSenders == {"noreply@swiggy.in", "offers@flipkart.com", ""}

\* the names the vendor map knows
CanonicalVendors == {"Swiggy", "Instamart", "Zomato", "Amazon", "Domino's", "BookMyShow"}

\* records as the parser returns them (company "": no company key), and as the
\* routes and pages pass them on, with item['company'] = name for the vendor
\* whose address was searched
OrderRecords ==
    [date : Months \cup {BadDate}, amount : OrderAmounts \cup {BadAmount},
     sender : AggSenders, company : {""}]
    \cup [date : Months \cup {BadDate}, amount : OrderAmounts \cup {BadAmount},
          sender : {"noreply@swiggy.in"}, company : {"Swiggy"}]

\* 'company' in df.columns
HasCompany(rows) == rows # <<>> /\ rows[1].company # ""

OrderLists ==
    {l \in UNION {[1..n -> OrderRecords] : n \in 0..MaxOrders} :
        \A i \in 1..Len(l) : (l[i].company # "") = HasCompany(l)}

\* the words normalize_company looks for that occur in the lower-cased text
CompanyTokens(s) ==
    CASE s = "noreply@swiggy.in" -> {"swiggy"}
      [] s = "Swiggy" -> {"swiggy"}
      [] OTHER -> {}

normalize_company(s) ==
    IF "instamart" \in CompanyTokens(s) THEN "Instamart"
    ELSE IF "swiggy" \in CompanyTokens(s) THEN "Swiggy"
    ELSE IF "amazon" \in CompanyTokens(s) THEN "Amazon"
    ELSE IF "zomato" \in CompanyTokens(s) THEN "Zomato"
    ELSE IF "domino" \in CompanyTokens(s) THEN "Domino's"
    ELSE IF "bookmyshow" \in CompanyTokens(s) THEN "BookMyShow"
    ELSE IF s # "" THEN s ELSE "Unknown"

SumOf(rows) == SeqSum([i \in 1..Len(rows) |-> rows[i].amount])

\* round(mean, 2): the mean in whole paise
MeanOf(rows) == (2 * SumOf(rows) + Len(rows)) \div (2 * Len(rows))

\* df['company']: the column given, or normalize_company(sender)
CompanyOf(r, rows) == IF HasCompany(rows) THEN r.company ELSE normalize_company(r.sender)

\* src/backend/app.py: rows without a numeric amount are dropped, a date that
\* cannot be parsed becomes NaT and its month the key 'Unknown' (BadDate here)
aggregate_results_to_response(all_data) ==
    LET df == SelectSeq(all_data, LAMBDA r : r.amount # BadAmount)
    IN  IF all_data = <<>> \/ df = <<>> THEN EmptyResponse
        ELSE [monthly_spending |->
                  [k \in {df[i].date : i \in 1..Len(df)} |->
                      SumOf(SelectSeq(df, LAMBDA r : r.date = k))],
              sender_spending |->
                  [c \in {CompanyOf(df[i], df) : i \in 1..Len(df)} |->
                      SumOf(SelectSeq(df, LAMBDA r : CompanyOf(r, df) = c))],
              total_spent |-> SumOf(df),
              average_order |-> MeanOf(df),
              total_orders |-> Len(df),
              expenses |->
                  [i \in 1..Len(df) |->
                      [company |->
                           normalize_company(IF CompanyOf(df[i], df) # ""
                                             THEN CompanyOf(df[i], df) ELSE df[i].sender),
                       date |-> df[i].date,
                       amount |-> df[i].amount]]]

\* src/expense.py, OrderAnalyzer: _clean_data drops the rows without a date or
\* without an amount; the summary, monthly and vendor aggregates of the rest
OrderAnalyzerReport(data) ==
    LET df == SelectSeq(data, LAMBDA r : r.date # BadDate /\ r.amount # BadAmount)
    IN  [monthly_spending |->
             [k \in {df[i].date : i \in 1..Len(df)} |->
                 SumOf(SelectSeq(df, LAMBDA r : r.date = k))],
         sender_spending |->
             IF HasCompany(data)
             THEN [c \in {df[i].company : i \in 1..Len(df)} |->
                      SumOf(SelectSeq(df, LAMBDA r : r.company = c))]
             ELSE <<>>,
         total_spent |-> SumOf(df),
         average_order |-> IF df = <<>> THEN 0 ELSE MeanOf(df),
         total_orders |-> Len(df),
         expenses |-> <<>>]

Max(a, b) == IF a >= b THEN a ELSE b

\* (total_spent / budget) * 100, in whole percents
Percentage(total_spent, budget) ==
    IF budget > 0 THEN (total_spent * 100) \div budget
    ELSE 0 - ((total_spent * 100) \div (0 - budget))

\* src/backend/app.py, budget_analysis and update_monthly_expenses
EvaluateBudget(total_spent, budget) ==
    [spent |-> total_spent,
     remaining |-> Max(budget - total_spent, 0),
     percentage |-> IF budget > 0 THEN Percentage(total_spent, budget) ELSE 0,
     budget |-> budget]

\* src/swiggy.py, analyze_with_limit: the rows of the current month with a
\* date and an amount; the percentage is computed whatever the budget is
LimitReport(data, budget) ==
    LET df == SelectSeq(data, LAMBDA r : /\ r.date # BadDate
                                         /\ r.amount # BadAmount
                                         /\ r.date = CurrentMonth)
    IN  [spent |-> SumOf(df),
         remaining |-> Max(budget - SumOf(df), 0),
         percentage |-> Percentage(SumOf(df), budget),
         budget |-> budget]

\* budgets a request or the number input may carry, in paise
Budgets == {0 - 10000, 0, 12500, 20000}

InitAggregate ==
    /\ MonitorIdle
    /\ ParseIdle
    /\ ExtractIdle
    /\ SearchIdle
    /\ a_data \in OrderLists
    /\ a_pc = "call"
    /\ a_result = EmptyResponse
    /\ a_report = NoReport
    /\ BudgetIdle
    /\ CollectIdle
    /\ ScenarioIdle
    /\ SessionIdle

\* result = aggregate_results_to_response(all_data), as analyze_emails calls it
Aggregate ==
    /\ a_pc = "call"
    /\ a_result' = aggregate_results_to_response(a_data)
    /\ a_pc' = "analyze_emails"
    /\ UNCHANGED <<a_data, a_report>>
    /\ UNCHANGED <<mvars, pvars, evars, svars, bvars, cvars, xvars, dvars>>

budget_analysis(budget) ==
    /\ a_pc = "call"
    /\ a_result' = aggregate_results_to_response(a_data)
    /\ a_report' = EvaluateBudget(a_result'.total_spent, budget)
    /\ a_pc' = "budget_analysis"
    /\ UNCHANGED a_data
    /\ UNCHANGED <<mvars, pvars, evars, svars, bvars, cvars, xvars, dvars>>

\* OrderAnalyzer(all_data).generate_report(), called when all_data is not empty
generate_report ==
    /\ a_pc = "call"
    /\ a_data # <<>>
    /\ a_result' = OrderAnalyzerReport(a_data)
    /\ a_pc' = "generate_report"
    /\ UNCHANGED <<a_data, a_report>>
    /\ UNCHANGED <<mvars, pvars, evars, svars, bvars, cvars, xvars, dvars>>

\* called by the budget page of src/swiggy.py "if ... and budget", with data
analyze_with_limit(budget) ==
    /\ a_pc = "call"
    /\ a_data # <<>>
    /\ budget # 0
    /\ a_report' = LimitReport(a_data, budget)
    /\ a_pc' = "analyze_with_limit"
    /\ UNCHANGED <<a_data, a_result>>
    /\ UNCHANGED <<mvars, pvars, evars, svars, bvars, cvars, xvars, dvars>>

NextAggregate ==
    \/ Aggregate
    \/ \E budget \in Budgets : budget_analysis(budget)
    \/ generate_report
    \/ \E budget \in Budgets : analyze_with_limit(budget)

SpecAggregate == InitAggregate /\ [][NextAggregate]_vars

(* ======================================================================= *)
(* The stored budget of one user and its periodic update                   *)
(* (src/backend/app.py: set_budget, update_monthly_expenses,               *)
(* manual_budget_alert)                                                    *)
(* ======================================================================= *)

\* hours of one day: timedelta.days counts whole days
DayHours == 24

\* the alert threshold of update_monthly_expenses, in percent
AlertPercent == 80

\* an alert is due at every update at or above the threshold
AlertDueUndebounced(percentage, last_alert, clock) ==
    percentage >= AlertPercent

\* the decision of update_monthly_expenses: at or above the threshold, and
\* no last_alert stored or (datetime.now() - last_alert_dt).days >= 1
AlertDue(percentage, last_alert, clock) ==
    /\ percentage >= AlertPercent
    /\ \/ last_alert = None
       \/ (clock - last_alert) \div DayHours >= 1

\* the records one update collects: searched since the first of the month,
\* each with the amount parse_emails found and labeled with its source name
LabeledRecords ==
    {r \in OrderRecords : /\ r.company # ""
                          /\ r.amount # BadAmount
                          /\ r.date = CurrentMonth}

LabeledLists == UNION {[1..n -> LabeledRecords] : n \in 0..MaxOrders}

InitBudget ==
    /\ MonitorIdle
    /\ ParseIdle
    /\ ExtractIdle
    /\ SearchIdle
    /\ AggregateIdle
    /\ BudgetIdle
    /\ CollectIdle
    /\ ScenarioIdle
    /\ SessionIdle

\* save_user_data(): json.dump of the record of the user
UserRecord(budget, expenses, last_alert) ==
    [budget |-> budget, monthly_expenses |-> expenses, last_alert |-> last_alert]

\* scheduler.add_job(..., id=job_id, replace_existing=True): the job of that
\* id replaces the one the scheduler holds
AddJob(held) == 1

\* threading.Thread(...).start() in set_budget: src/backend/app.py never
\* imports threading, the NameError is caught and printed, no thread starts
ThreadStarted == FALSE

\* send_budget_alert delivered (returned True) or failed (returned False)
Delivered(sent) == IF sent THEN Append(alerts, b_clock) ELSE alerts

\* POST /set_budget: a budget that is not positive is refused, any other
\* replaces the record of the user
set_budget(budget) ==
    /\ IF budget <= 0
       THEN /\ b_pc' = "set_budget 400"
            /\ UNCHANGED <<u_known, u_budget, u_expenses, u_last_alert, saved,
                           jobs, first_update>>
       ELSE /\ u_known' = TRUE
            /\ u_budget' = budget
            /\ u_expenses' = NoReport
            /\ u_last_alert' = None
            /\ saved' = UserRecord(budget, NoReport, None)
            /\ jobs' = AddJob(jobs)
            /\ first_update' = ThreadStarted
            /\ b_pc' = "set_budget"
    /\ UNCHANGED <<b_clock, last_alert_iso, should_alert, alerts>>
    /\ UNCHANGED <<mvars, pvars, evars, svars, avars, cvars, xvars, dvars>>

\* user['last_alert'] after the alert decision of one update
LastAlertAfterAttempt(due, sent, last_alert, clock) ==
    IF due THEN clock ELSE last_alert

LastAlertAfter(due, sent, last_alert, clock) ==
    IF due /\ sent THEN clock ELSE last_alert

\* one run of the scheduled job; sent is what send_budget_alert returns
update_monthly_expenses(all_data, sent) ==
    /\ u_known
    /\ u_budget > 0
    /\ \E result \in {aggregate_results_to_response(all_data)} :
       \E expenses \in {EvaluateBudget(result.total_spent, u_budget)} :
       \E due \in {AlertDue(expenses.percentage, u_last_alert, b_clock)} :
           /\ due /\ sent => Len(alerts) < MaxAlerts
           /\ u_expenses' = expenses
           /\ last_alert_iso' = u_last_alert
           /\ should_alert' = due
           /\ u_last_alert' = LastAlertAfter(due, sent, u_last_alert, b_clock)
           /\ alerts' = Delivered(due /\ sent)
           /\ saved' = UserRecord(u_budget, expenses, u_last_alert')
    /\ b_pc' = "update_monthly_expenses"
    /\ UNCHANGED <<u_known, u_budget, b_clock, jobs, first_update>>
    /\ UNCHANGED <<mvars, pvars, evars, svars, avars, cvars, xvars, dvars>>

\* POST /send_budget_alert
manual_budget_alert(sent) ==
    /\ u_known
    /\ u_expenses # NoReport
    /\ sent => Len(alerts) < MaxAlerts
    /\ u_last_alert' = IF sent THEN b_clock ELSE u_last_alert
    /\ alerts' = Delivered(sent)
    /\ saved' = IF sent THEN UserRecord(u_budget, u_expenses, b_clock) ELSE saved
    /\ b_pc' = "manual_budget_alert"
    /\ UNCHANGED <<u_known, u_budget, u_expenses, b_clock, last_alert_iso,
                   should_alert, jobs, first_update>>
    /\ UNCHANGED <<mvars, pvars, evars, svars, avars, cvars, xvars, dvars>>

\* time passes between two handlers
BudgetTick ==
    /\ b_clock + TickHours <= MaxHours
    /\ b_clock' = b_clock + TickHours
    /\ b_pc' = "tick"
    /\ UNCHANGED <<u_known, u_budget, u_expenses, u_last_alert, last_alert_iso,
                   should_alert, alerts, saved, jobs, first_update>>
    /\ UNCHANGED <<mvars, pvars, evars, svars, avars, cvars, xvars, dvars>>

NextBudget ==
    \/ \E budget \in Budgets : set_budget(budget)
    \/ \E all_data \in LabeledLists, sent \in BOOLEAN :
           update_monthly_expenses(all_data, sent)
    \/ \E sent \in BOOLEAN : manual_budget_alert(sent)
    \/ BudgetTick

SpecBudget == InitBudget /\ [][NextBudget]_vars

(* ======================================================================= *)
(* The loop of a backend route over the selected sources and their sender  *)
(* addresses (src/backend/app.py: analyze_emails, budget_analysis,         *)
(* update_monthly_expenses)                                                *)
(* ======================================================================= *)

\* messages the mailbox of this specification may hold
MaxMail == 2

\* SOURCE_MAP of the backend, restricted to two of its six vendors: the
\* addresses of each in the order of the list
SourceAddresses ==
    [Swiggy |-> <<"noreply@swiggy.in", "orders@swiggy.in", "noreply@orders.swiggy.net">>,
     Amazon |-> <<"auto-confirm@amazon.in", "auto-confirm@amazon.in",
                  "order-update@amazon.in">>]

\* sources as a request carries them; "Flipkart" is not a key of SOURCE_MAP
SourceRequests ==
    { <<>>, <<"Swiggy">>, <<"Amazon">>, <<"Swiggy", "Amazon">>, <<"Flipkart", "Amazon">> }

\* From addresses of the order messages in the mailbox
CollectSenders == {"noreply@swiggy.in", "auto-confirm@amazon.in", "order-update@amazon.in"}

\* order messages: the sender, the month of the date and the amount in paise
CollectBoxes ==
    UNION {[1..n -> [sender : CollectSenders, day : Months, amount : {7000}]] :
              n \in 0..MaxMail}

Routes == {"analyze_emails", "budget_analysis", "update_monthly_expenses"}

BudgetRoutes == {"budget_analysis", "update_monthly_expenses"}

\* for name in sources: if name not in SOURCE_MAP: continue;
\* for sender_addr in SOURCE_MAP[name]: the (name, sender_addr) pairs in order
SourcePairs(sources) ==
    Flatten([k \in 1..Len(sources) |->
                IF sources[k] \in DOMAIN SourceAddresses
                THEN [a \in 1..Len(SourceAddresses[sources[k]]) |->
                         <<sources[k], SourceAddresses[sources[k]][a]>>]
                ELSE <<>>])

\* search_criteria of the route: SINCE the first of the current month for the
\* budget routes, SINCE the first of January ("This Year") for analyze_emails
RouteCriteria(route) ==
    [since |-> IF route \in BudgetRoutes THEN CurrentMonth ELSE 1, before |-> None]

\* parser.parse_emails(sender_email=sender_addr, search_criteria=...), every
\* message found giving a record, and item['company'] = name
DataList(name, sender_addr, route, box) ==
    LET found == ServerSearch(BackendSearch(sender_addr, RouteCriteria(route)), box)
    IN  [k \in 1..Len(found) |->
            [num |-> found[k],
             date |-> box[found[k]].day,
             amount |-> box[found[k]].amount,
             sender |-> box[found[k]].sender,
             company |-> name]]

InitCollect ==
    /\ MonitorIdle
    /\ ParseIdle
    /\ ExtractIdle
    /\ SearchIdle
    /\ AggregateIdle
    /\ BudgetIdle
    /\ c_route \in Routes
    /\ c_sources \in SourceRequests
    /\ c_box \in CollectBoxes
    /\ c_pos = 0
    /\ c_data = <<>>
    /\ c_pc = "loop"
    /\ c_report = NoReport
    /\ ScenarioIdle
    /\ SessionIdle

\* one pass of the inner loop; a parse_emails call that raises, or whose
\* connection fails, gives data_list = []
CollectFrom(ok) ==
    /\ c_pc = "loop"
    /\ c_pos < Len(SourcePairs(c_sources))
    /\ LET pair == SourcePairs(c_sources)[c_pos + 1]
           data_list == IF ok THEN DataList(pair[1], pair[2], c_route, c_box) ELSE <<>>
       IN  c_data' = c_data \o data_list
    /\ c_pos' = c_pos + 1
    /\ UNCHANGED <<c_route, c_sources, c_box, c_pc, c_report>>
    /\ UNCHANGED <<mvars, pvars, evars, svars, avars, bvars, xvars, dvars>>

\* result = aggregate_results_to_response(all_data) after the loops, and the
\* budget evaluation of the two budget routes
CollectAggregate(budget) ==
    /\ c_pc = "loop"
    /\ c_pos = Len(SourcePairs(c_sources))
    /\ c_route = "update_monthly_expenses" => budget > 0
    /\ c_report' = IF c_route \in BudgetRoutes
                   THEN EvaluateBudget(aggregate_results_to_response(c_data).total_spent,
                                       budget)
                   ELSE NoReport
    /\ c_pc' = "done"
    /\ UNCHANGED <<c_route, c_sources, c_box, c_pos, c_data>>
    /\ UNCHANGED <<mvars, pvars, evars, svars, avars, bvars, xvars, dvars>>

NextCollect ==
    \/ \E ok \in BOOLEAN : CollectFrom(ok)
    \/ \E budget \in Budgets : CollectAggregate(budget)

SpecCollect == InitCollect /\ [][NextCollect]_vars

(* ======================================================================= *)
(* Three messages of one sender, parsed by the backend and aggregated      *)
(* (src/backend/email_processing.py parse_emails, src/backend/app.py       *)
(* analyze_emails)                                                         *)
(* ======================================================================= *)

\* the name analyze_emails searched the sender for
ScenarioVendor(sender) ==
    CASE sender = "noreply@swiggy.in" -> "Swiggy"
      [] sender = "auto-confirm@amazon.in" -> "Amazon"
      [] sender = "noreply@zomato.com" -> "Zomato"

\* a message with the body "Order Total: ₹250.00"
OrderMessage(sender) ==
    [poison |-> FALSE, sender |-> sender, subject |-> "Your order is confirmed",
     body |-> <<Line("OrderTotal", 25000)>>]

\* a message with the body "This order was cancelled"
CancelledMessages(sender) ==
    [poison : {FALSE}, sender : {sender}, subject : Subjects,
     body : {<<Line("Cancelled", 0)>>}]

\* a message whose body could not be decoded (get_email_body returns "") or
\* holds no amount
UnparseableMessages(sender) ==
    [poison : {FALSE}, sender : {sender}, subject : {"Your order is confirmed"},
     body : {<<>>, <<Line("Thanks", 0)>>}]

\* the three messages in every order the server may return them
ScenarioBatches ==
    UNION {{b \in [1..3 -> {OrderMessage(sender)} \cup CancelledMessages(sender)
                              \cup UnparseableMessages(sender)] :
               /\ \E i \in 1..3 : b[i] = OrderMessage(sender)
               /\ \E i \in 1..3 : b[i] \in CancelledMessages(sender)
               /\ \E i \in 1..3 : b[i] \in UnparseableMessages(sender)} :
           sender \in ParseSenders}

InitScenario ==
    /\ MonitorIdle
    /\ ParseIdle
    /\ ExtractIdle
    /\ SearchIdle
    /\ AggregateIdle
    /\ BudgetIdle
    /\ CollectIdle
    /\ x_batch \in ScenarioBatches
    /\ x_pc = "call"
    /\ x_records = <<>>
    /\ x_result = EmptyResponse
    /\ SessionIdle

\* parser.parse_emails(sender_email=sender_addr, ...) on a session that works,
\* and item['company'] = name for every record returned
ScenarioParse ==
    /\ x_pc = "call"
    /\ LET returned == Flatten([i \in 1..Len(x_batch) |-> BackendRecords(i, x_batch[i])])
       IN  x_records' = [k \in 1..Len(returned) |->
                            [date |-> CurrentMonth,
                             amount |-> returned[k].amount,
                             sender |-> x_batch[returned[k].msg].sender,
                             company |-> ScenarioVendor(x_batch[returned[k].msg].sender)]]
    /\ x_pc' = "parsed"
    /\ UNCHANGED <<x_batch, x_result>>
    /\ UNCHANGED <<mvars, pvars, evars, svars, avars, bvars, cvars, dvars>>

\* result = aggregate_results_to_response(all_data)
ScenarioAggregate ==
    /\ x_pc = "parsed"
    /\ x_result' = aggregate_results_to_response(x_records)
    /\ x_pc' = "done"
    /\ UNCHANGED <<x_batch, x_records>>
    /\ UNCHANGED <<mvars, pvars, evars, svars, avars, bvars, cvars, dvars>>

NextScenario ==
    \/ ScenarioParse
    \/ ScenarioAggregate

SpecScenario == InitScenario /\ [][NextScenario]_vars

(* ======================================================================= *)
(* The session of the dashboard: login, inactivity timeout, expiry and     *)
(* logout (src/expense.py: main, authenticate, check_authenticated)        *)
(* ======================================================================= *)

\* hours the clock of the session specification may reach
MaxSessionHours == 25

\* EmailMonitor objects the session specification may create
MaxMonitors == 2

\* "Session expires after 8 hours": 28800 seconds
SessionHours == 8

\* the inactivity timeout of main: 3600 seconds
InactivityHours == 1

\* timedelta.seconds: the seconds of the difference beyond its whole days
\* (here in hours)
SecondsOf(elapsed) == elapsed % DayHours

\* check_authenticated()
check_authenticated ==
    /\ authenticated
    /\ last_auth_time # None
    /\ SecondsOf(d_clock - last_auth_time) < SessionHours

\* st.session_state.last_activity after init_session_state(), which sets it to
\* time.time() in the first run of a session
Activity == IF d_pc = "idle" THEN d_clock ELSE last_activity

\* current_time - st.session_state.last_activity > 3600 in an authenticated session
TimedOut == authenticated /\ d_clock - Activity > InactivityHours

\* what a script run is given: nothing but a reload or a click that only
\* reruns ("view"), the login form submitted with credentials that connect
\* ("login") or do not ("bad_login"), the Logout button ("logout")
RunInputs == {"view", "login", "bad_login", "logout"}

InitSession ==
    /\ MonitorIdle
    /\ ParseIdle
    /\ ExtractIdle
    /\ SearchIdle
    /\ AggregateIdle
    /\ BudgetIdle
    /\ CollectIdle
    /\ ScenarioIdle
    /\ SessionIdle

\* one run of main() with the reruns it asks for. The form can only be
\* submitted if the run before displayed it, the Logout button only be
\* pressed if the run before displayed the page.
main(input) ==
    /\ input \in {"login", "bad_login"} => d_pc \in {"idle", "form"}
    /\ input = "logout" => d_pc = "page"
    /\ input = "login" => created < MaxMonitors
    /\ IF TimedOut
       THEN \* "Session expired due to inactivity": the rerun shows the form
            /\ authenticated' = FALSE
            /\ d_pc' = "form"
            /\ d_valid' = FALSE
            /\ d_elapsed' = 0
            /\ last_activity' = Activity
            /\ UNCHANGED <<last_auth_time, monitor, loops, created>>
       ELSE IF check_authenticated
       THEN /\ d_valid' = TRUE
            /\ d_elapsed' = d_clock - last_auth_time
            /\ IF input = "logout"
               THEN \* stop_monitoring(), session_state.clear(), rerun
                    /\ loops' = loops \ {monitor}
                    /\ authenticated' = FALSE
                    /\ last_auth_time' = None
                    /\ last_activity' = d_clock
                    /\ monitor' = None
                    /\ d_pc' = "form"
                    /\ UNCHANGED created
               ELSE /\ last_activity' = d_clock
                    /\ d_pc' = "page"
                    /\ UNCHANGED <<authenticated, last_auth_time, monitor, loops, created>>
       ELSE /\ d_valid' = FALSE
            /\ d_elapsed' = IF authenticated /\ last_auth_time # None
                            THEN d_clock - last_auth_time ELSE 0
            /\ IF input = "login"
               THEN \* a new EmailMonitor is started; the rerun applies the
                    \* inactivity check to the last_activity it finds
                    /\ last_auth_time' = d_clock
                    /\ monitor' = created + 1
                    /\ created' = created + 1
                    /\ loops' = loops \cup {created + 1}
                    /\ IF ~authenticated /\ d_clock - Activity > InactivityHours
                       THEN /\ authenticated' = FALSE
                            /\ d_pc' = "form"
                            /\ last_activity' = Activity
                       ELSE /\ authenticated' = TRUE
                            /\ d_pc' = "page"
                            /\ last_activity' = d_clock
               ELSE /\ last_activity' = IF authenticated THEN d_clock ELSE Activity
                    /\ d_pc' = "form"
                    /\ UNCHANGED <<authenticated, last_auth_time, monitor, loops, created>>
    /\ UNCHANGED d_clock
    /\ UNCHANGED <<mvars, pvars, evars, svars, avars, bvars, cvars, xvars>>

\* an hour passes between two script runs
SessionTick ==
    /\ d_clock < MaxSessionHours
    /\ d_clock' = d_clock + 1
    /\ UNCHANGED <<authenticated, last_auth_time, last_activity, monitor, loops, created,
                   d_pc, d_valid, d_elapsed>>
    /\ UNCHANGED <<mvars, pvars, evars, svars, avars, bvars, cvars, xvars>>

NextSession ==
    \/ \E input \in RunInputs : main(input)
    \/ SessionTick

SpecSession == InitSession /\ [][NextSession]_vars

(* ======================================================================= *)
(* Claims about the monitor (checked under Spec)                           *)
(* ======================================================================= *)

IsPrefix(s, t) == Len(s) <= Len(t) /\ \A i \in 1..Len(s) : s[i] = t[i]

AliveThreads == {t \in ThreadIds : Alive(t)}

\* C1: once stop_monitoring has returned, and until start_monitoring is
\* called again, no Thread is inside _monitor_emails and no record is
\* appended to new_emails.
C1_StopLeavesNoIteration ==
    /\ [](phase = "stopped" => AliveThreads = {})
    /\ [][phase = "stopped" /\ phase' = "stopped"
              => Len(new_emails') <= Len(new_emails)]_vars

\* stop_monitoring has returned after joining a Thread that had appended records
C1_Witness ==
    /\ phase = "stopped"
    /\ thread # 0
    /\ last_result = "ok_data"
    /\ new_emails # <<>>

\* C2: after one or more start_monitoring calls with no stop_monitoring in
\* between, exactly one monitor loop is running.
C2_StartIdempotent ==
    phase \in {"started", "restarted"} => running /\ Cardinality(AliveThreads) = 1

\* start_monitoring has been called on a monitor that was already running
C2_Witness == phase = "restarted" /\ Cardinality(AliveThreads) = 1

\* C3: an iteration, failed or not, ends in the sleep, the sleep ends in the
\* loop test, and the loop test of a running monitor starts the next
\* iteration: the loop is left only from its test, with running false.
C3_ErrorsNeverEndTheLoop ==
    [][\A t \in ThreadIds :
          /\ threads[t] = "try" /\ threads'[t] # "try" => threads'[t] = "sleep"
          /\ threads[t] = "sleep" /\ threads'[t] # "sleep" => threads'[t] = "while"
          /\ threads[t] = "while" /\ threads'[t] # "while" /\ running
                => threads'[t] = "try"]_vars

\* the iteration after one that raised is under way
C3_Witness ==
    /\ running
    /\ last_result = "error"
    /\ \E t \in ThreadIds : threads[t] = "try"

\* C4: last_checked is None until an iteration has completed, and every
\* iteration that completes without error, with or without records, sets it to
\* the current time.
C4_CheckpointAdvancesOnSuccess ==
    /\ [](last_result = "none" => last_checked = None)
    /\ [][\A t \in ThreadIds :
             threads[t] = "try" /\ threads'[t] = "sleep"
             /\ last_result' \in {"ok_empty", "ok_data"}
                => last_checked' = now]_vars

ParseOver == p_pc \in {"done", "responded"}

\* the line texts that carry a currency-tagged number
CurrencyForms == {"OrderTotal", "TotalRupee", "AmountColon", "Rupee", "Rs", "TotalRs", "RsRs"}

NoCurrencyNumber(body) == \A i \in 1..Len(body) : body[i].form \notin CurrencyForms

\* the records of every message of the batch that can be read
ExpectedRecords ==
    Flatten([i \in 1..Len(batch) |->
               IF batch[i].poison THEN <<>>
               ELSE IF variant = "backend" THEN BackendRecords(i, batch[i])
               ELSE RootRecords(i, batch[i])])

\* C6: a parse_emails call that opened a session has logged it out exactly
\* once when it is over, whichever way it ended.
C6_SessionClosedOnce == ParseOver /\ opened > 0 => closed = 1

\* C7: when the connection or the login failed, parse_emails ends with an
\* explicit failure, not with the empty list of a mailbox without orders, and
\* the analyze_emails response does not report success.
C7_FailureDistinguished ==
    ParseOver /\ p_fault \in {"login", "transport"}
        => /\ p_ret.kind = "raise"
           /\ p_pc = "responded" => ~response.success

\* C8: when a message of the batch could not be fetched or decoded,
\* parse_emails still returns the records of every other message, and the
\* analyze_emails response holds them.
C8_PoisonedMessageSkipped ==
    ParseOver /\ p_fault = "message"
        => /\ p_ret = Returned(ExpectedRecords)
           /\ p_pc = "responded" => response.data = ExpectedRecords

\* C9: no record of order_data comes from a message whose subject or body
\* holds a word of the exclusion vocabulary.
C9_CancelledExcluded ==
    \A k \in 1..Len(order_data) : ~ShouldSkip(batch[order_data[k].msg])

\* C10: a handled message from a sender without a vendor rule, not excluded,
\* whose body holds a currency-tagged amount, has a record with that amount.
C10_GenericFallback ==
    \A i \in 1..p_i :
        LET m == batch[i]
            amounts == Values(FindAll(AmountForms, "digits", m.body))
        IN  ~m.poison /\ SenderTokens(m.sender) = {} /\ ~ShouldSkip(m) /\ amounts # <<>>
                => \E k \in 1..Len(order_data) :
                       /\ order_data[k].msg = i
                       /\ \E j \in 1..Len(amounts) : order_data[k].amount = amounts[j]

\* C13: a handled message whose body is not empty and holds no currency-tagged
\* number gets None from extract_order_info and has no record in order_data.
C13_NoMatchNoRecord ==
    \A i \in 1..p_i :
        LET m == batch[i]
        IN  ~m.poison /\ m.body # <<>> /\ NoCurrencyNumber(m.body)
                => /\ IF variant = "backend"
                      THEN BackendExtract(m.body, m.sender) = NoAmount
                      ELSE RootExtract(m.body) = NoAmount
                   /\ \A k \in 1..Len(order_data) : order_data[k].msg # i

\* a call has returned the record of its second message after a first message,
\* not excluded, whose body holds a text without any amount
C13_Witness ==
    /\ p_pc = "done"
    /\ Len(batch) = 2
    /\ ~batch[1].poison
    /\ batch[1].body = <<Line("Thanks", 0)>>
    /\ ~ShouldSkip(batch[1])
    /\ p_ret = Returned(<<[msg |-> 2, amount |-> 25000]>>)

(* ======================================================================= *)
(* Claims about extract_order_info (checked under SpecExtract)             *)
(* ======================================================================= *)

Range(s) == {s[i] : i \in 1..Len(s)}

\* the matches of entry p of the pattern list of the implementation called
ListFindAll(p) ==
    IF e_impl = "root" THEN RootFindAll(p, e_body) ELSE SwiggyDataFindAll(p, e_body)

ListEntries ==
    IF e_impl = "root" THEN 1..Len(RootPatternForms) ELSE 1..Len(SwiggyDataPatternForms)

\* the entries that match the body, and the first of them
Matching == {p \in ListEntries : ListFindAll(p) # <<>>}

FirstMatching == CHOOSE p \in Matching : \A q \in Matching : p <= q

GenericCall == e_impl \in {"root", "swiggy_data"}

\* entries whose pattern starts with a label (Amount Payable, Payment pending,
\* Item(s) total, Total, Order Total, Paid Via Cash, Item Total, Amount|Total|Price)
LabeledEntries ==
    IF e_impl = "root" THEN {1, 2, 3, 4, 6, 7, 8, 9, 13, 17}
    ELSE {1, 2, 3, 4, 8, 9, 10, 11, 12, 16}

\* entries that match any number after ₹, Rs or INR
GenericEntries ==
    IF e_impl = "root" THEN {10, 11, 14, 15, 16} ELSE {5, 6, 13, 14, 15}

\* C11: every labeled entry of the pattern list comes before every generic
\* entry, and when a generic entry decided the result no labeled entry matches
\* the body.
C11_LabeledBeforeGeneric ==
    e_pc = "done" /\ GenericCall
        => /\ \A l \in LabeledEntries, g \in GenericEntries : l < g
           /\ e_amount # NoAmount /\ FirstMatching \in GenericEntries
                 => Matching \cap LabeledEntries = {}

\* every string a pattern of the cascade of this call takes from the body
CascadeCaptures ==
    CASE GenericCall -> UNION {Range(ListFindAll(p)) : p \in ListEntries}
      [] "swiggy" \in SenderTokens(e_sender) ->
            UNION {Range(FindAll(SwiggyPatternForms[p], "any", e_body)) :
                     p \in 1..Len(SwiggyPatternForms)}
      [] "amazon" \in SenderTokens(e_sender) -> Range(FindAll({"TotalRupee"}, "any", e_body))
      [] OTHER -> {}

\* C12: a match that is not a number counts as no match: the result is None
\* when no match of any pattern is a number (never zero), and it is an amount
\* when some pattern has a match that is a number.
C12_BadCandidateSkipped ==
    e_pc = "done"
        => /\ (\A c \in CascadeCaptures : ~c.float) => e_amount = NoAmount
           /\ (\E c \in CascadeCaptures : c.float) => e_amount # NoAmount

\* C14: the generic extract_order_info returns the largest match of the first
\* entry of its pattern list that matches the body, when those matches are
\* numbers.
C14_LargestOfFirstPattern ==
    e_pc = "done" /\ GenericCall /\ Matching # {}
    /\ (\A c \in Range(ListFindAll(FirstMatching)) : c.float)
        => e_amount = SeqMax(Values(ListFindAll(FirstMatching)))

\* the amounts of the "Total ₹<n>" lines of the body whose <n> is a number
TotalLineAmounts ==
    LET lines == SelectSeq(e_body, LAMBDA l : l.form = "TotalRupee" /\ l.style # "nodigit")
    IN  [i \in 1..Len(lines) |-> lines[i].amt]

\* C15: for an Amazon sender and a body with "Total ₹<n>" lines, the backend
\* returns the sum of the amounts of these lines.
C15_AmazonSum ==
    e_pc = "done" /\ e_impl = "backend" /\ "amazon" \in SenderTokens(e_sender)
    /\ TotalLineAmounts # <<>>
    /\ (\A i \in 1..Len(e_body) : e_body[i].style \in {"plain", "nodigit"})
        => e_amount = SeqSum(TotalLineAmounts)

\* the totals 199.00 and 450.50 of an Amazon message were merged into 649.50
C15_Witness ==
    /\ e_pc = "done"
    /\ e_impl = "backend"
    /\ e_sender = "auto-confirm@amazon.in"
    /\ TotalLineAmounts = <<19900, 45050>>
    /\ e_amount = 64950

(* ======================================================================= *)
(* Claims about the search (checked under SpecSearch)                      *)
(* ======================================================================= *)

\* C16: when parse_emails is given a sender and a date range, every message
\* the search returns is from that sender and dated inside the range (SINCE
\* inclusive, BEFORE exclusive).
C16_SenderAndDateCombined ==
    s_pc = "done" /\ s_sender # "" /\ s_criteria.since # None
        => \A k \in 1..Len(s_found) :
               LET m == s_box[s_found[k]]
               IN  /\ m.sender = s_sender
                   /\ m.day >= s_criteria.since
                   /\ s_criteria.before = None \/ m.day < s_criteria.before

(* ======================================================================= *)
(* Claims about aggregation (checked under SpecAggregate)                  *)
(* ======================================================================= *)

\* the records whose date and whose amount can be parsed
Parseable == SelectSeq(a_data, LAMBDA r : r.date # BadDate /\ r.amount # BadAmount)

\* C17: the aggregates are those of the records whose date and amount can be
\* parsed: the other records add to no monthly total, no vendor total, not to
\* the total spent, the average order or the order count.
C17_UnparseableDropped ==
    a_pc \in {"analyze_emails", "generate_report"}
        => /\ a_result.total_spent = SumOf(Parseable)
           /\ a_result.total_orders = Len(Parseable)
           /\ Parseable # <<>> => a_result.average_order = MeanOf(Parseable)
           /\ DOMAIN a_result.monthly_spending = {Parseable[i].date : i \in 1..Len(Parseable)}
           /\ \A k \in DOMAIN a_result.monthly_spending :
                  a_result.monthly_spending[k]
                      = SumOf(SelectSeq(Parseable, LAMBDA r : r.date = k))
           /\ \A c \in DOMAIN a_result.sender_spending :
                  a_result.sender_spending[c]
                      = SumOf(SelectSeq(Parseable, LAMBDA r : CompanyOf(r, a_data) = c))

\* C18: every vendor key of the aggregates, and the company of every expense,
\* is a canonical vendor name or Unknown.
C18_VendorKeysCanonical ==
    a_pc = "analyze_emails"
        => /\ DOMAIN a_result.sender_spending \subseteq CanonicalVendors \cup {"Unknown"}
           /\ \A i \in 1..Len(a_result.expenses) :
                  a_result.expenses[i].company \in CanonicalVendors \cup {"Unknown"}

\* C19: remaining is max(budget - spent, 0) and not negative; percentage is
\* spent / budget * 100 for a positive budget and 0 for any other budget.
C19_BudgetEvaluation ==
    a_pc \in {"budget_analysis", "analyze_with_limit"}
        => /\ a_report.remaining = Max(a_report.budget - a_report.spent, 0)
           /\ a_report.remaining >= 0
           /\ a_report.budget > 0
                 => a_report.percentage = (a_report.spent * 100) \div a_report.budget
           /\ a_report.budget <= 0 => a_report.percentage = 0

(* ======================================================================= *)
(* Claims about the budget alert (checked under SpecBudget)                *)
(* ======================================================================= *)

\* the hours between the stored alert and the update that read it
SinceLastAlert == b_clock - last_alert_iso

DayOf(hour) == hour \div DayHours

\* C21: over any sequence of updates, set_budget calls and manual alerts,
\* delivered or failed, no two delivered alerts fall in one calendar day.
C21_OneAlertPerDay ==
    \A i, j \in 1..Len(alerts) : i # j => DayOf(alerts[i]) # DayOf(alerts[j])

\* C22: an update whose alert delivery fails still stores and saves the
\* monthly_expenses it computed, leaves last_alert and the saved last_alert
\* as they were, delivers nothing, and leaves the alert due for the next run.
C22_FailedDeliveryKeepsUpdate ==
    [][(/\ b_pc' = "update_monthly_expenses"
        /\ should_alert'
        /\ alerts' = alerts) =>
           /\ u_expenses' = EvaluateBudget(u_expenses'.spent, u_budget)
           /\ saved'.monthly_expenses = u_expenses'
           /\ u_last_alert' = u_last_alert
           /\ saved'.last_alert = u_last_alert
           /\ AlertDue(u_expenses'.percentage, u_last_alert', b_clock')]_vars

\* an update at or above the threshold whose alert was due and not delivered,
\* with an earlier alert on record
C22_Witness ==
    /\ b_pc = "update_monthly_expenses"
    /\ should_alert
    /\ u_last_alert = last_alert_iso
    /\ last_alert_iso # None
    /\ saved = UserRecord(u_budget, u_expenses, last_alert_iso)

\* C30: an accepted set_budget leaves exactly one update job scheduled for
\* the user and has started the first update without waiting for the job.
C30_SetBudgetStartsUpdate ==
    b_pc = "set_budget" => (jobs = 1 /\ first_update)

(* ======================================================================= *)
(* Claims about the routes of the backend (checked under SpecCollect)      *)
(* ======================================================================= *)

\* the records of c_data made from message number i
RecordsOf(i) == {k \in 1..Len(c_data) : c_data[k].num = i}

\* C28: in one run of a route every message of the mailbox contributes at
\* most one record to all_data.
C28_MessageCountedOnce ==
    c_pc = "done" => \A i \in 1..Len(c_box) : Cardinality(RecordsOf(i)) <= 1

\* C29: the evaluation of a budget route is that of the sum of the amounts of
\* the collected orders dated in the current month; an order of an earlier
\* month adds nothing to spent, remaining or percentage.
C29_SpentOfCurrentMonth ==
    (c_pc = "done" /\ c_route \in BudgetRoutes) =>
        c_report = EvaluateBudget(
                       SumOf(SelectSeq(c_data, LAMBDA r : r.date = CurrentMonth)),
                       c_report.budget)

(* ======================================================================= *)
(* Claim about the end-to-end scenario (checked under SpecScenario)        *)
(* ======================================================================= *)

\* C23: the three messages (an order total of 250.00 from a known vendor
\* address, a cancelled order, an unparseable body) give exactly one record,
\* of amount 250.00, and the aggregation counts one order.
C23_OneRecordOfThree ==
    x_pc = "done" =>
        /\ Len(x_records) = 1
        /\ x_records[1].amount = 25000
        /\ x_result.total_orders = 1

(* ======================================================================= *)
(* Claims about the session of the dashboard (checked under SpecSession)   *)
(* ======================================================================= *)

\* C24: at any time at most one _monitor_emails loop runs for the mailbox of
\* the session, across login, logout, inactivity timeout, expiry and re-login.
C24_OneMonitorLoop == Cardinality(loops) <= 1

\* C25: check_authenticated returns true only while less than 8 hours have
\* passed since the last successful authentication.
C25_ValidUnderEightHours == d_valid => d_elapsed < SessionHours

(* ======================================================================= *)
(* Claims about the buffer between the monitor and the pages (checked      *)
(* under Spec)                                                             *)
(* ======================================================================= *)

\* message numbers of the records the cache holds under any key
Cached(c) == UNION {Range(c[k]) : k \in DOMAIN c}

\* how often message number i occurs in the buffer
Occurrences(buf, i) == Cardinality({k \in 1..Len(buf) : buf[k] = i})

\* C26: no record of the buffer is lost by a step: every record of
\* new_emails is, after any step, still in new_emails or in the cache,
\* whatever vendors the render selected.
C26_DrainLosesNothing ==
    [][\A i \in Range(new_emails) :
           i \in Range(new_emails') \/ i \in Cached(cache')]_vars

\* C27: a message whose record is in the buffer is not appended to it again
\* by a later iteration.
C27_AppendedOnce ==
    [][\A i \in Range(new_emails) :
           Occurrences(new_emails', i) <= Occurrences(new_emails, i)]_vars

====
